---- MODULE Spec2Model ----
(***************************************************************************)
(* Model of pypgbackup.py: main() creates a scoped temporary directory,    *)
(* resolves the password, runs pg_dump as a subprocess (create_backup)     *)
(* and optionally uploads the dump to a B2 bucket (upload_to_b2_bucket).   *)
(* Strings the program takes apart (paths, the prefix) are sequences of    *)
(* one-character strings; opaque strings are TLA+ strings.                 *)
(***************************************************************************)
EXTENDS Integers, Sequences, FiniteSets, TLC

\* ---------------------------------------------------------------- bounds
MaxPrefixLen == 2
MaxWrites == 2

\* ------------------------------------------------------- option values
None == <<>>
Some(x) == <<x>>

\* ------------------------------------------------------ string helpers
Range(s) == {s[i] : i \in 1..Len(s)}
SeqsUpTo(S, n) == UNION {[1..k -> S] : k \in 0..n}

Digit(d) == <<"0", "1", "2", "3", "4", "5", "6", "7", "8", "9">>[d + 1]

RECURSIVE Pow10(_)
Pow10(k) == IF k = 0 THEN 1 ELSE 10 * Pow10(k - 1)

\* '%0wd' as strftime pads each numeric field
Pad(n, w) == [i \in 1..w |-> Digit((n \div Pow10(w - i)) % 10)]

\* str(int) for a non-negative int
RECURSIVE IntToStr(_)
IntToStr(n) == IF n < 10 THEN <<Digit(n)>> ELSE IntToStr(n \div 10) \o <<Digit(n % 10)>>

\* get_dt_format() applied by datetime.strftime: '%Y%m%d-%H%M%S'
Strftime(dt) ==
    Pad(dt.Y, 4) \o Pad(dt.M, 2) \o Pad(dt.D, 2) \o <<"-">>
        \o Pad(dt.h, 2) \o Pad(dt.m, 2) \o Pad(dt.s, 2)

\* str.strip(): drop leading and trailing whitespace
RECURSIVE LStrip(_)
LStrip(s) == IF s # <<>> /\ Head(s) = " " THEN LStrip(Tail(s)) ELSE s

RECURSIVE RStrip(_)
RStrip(s) == IF s # <<>> /\ s[Len(s)] = " " THEN RStrip(SubSeq(s, 1, Len(s) - 1)) ELSE s

Strip(s) == RStrip(LStrip(s))

\* str.rfind('/') + 1: index just past the last separator, 0 when absent
RFindSep(p) ==
    LET idx == {i \in 1..Len(p) : p[i] = "/"}
    IN  IF idx = {} THEN 0 ELSE CHOOSE i \in idx : \A j \in idx : j <= i

RECURSIVE RStripSep(_)
RStripSep(s) == IF s # <<>> /\ s[Len(s)] = "/" THEN RStripSep(SubSeq(s, 1, Len(s) - 1)) ELSE s

\* os.path.join(a, b) (posixpath)
Join(a, b) ==
    IF b # <<>> /\ Head(b) = "/" THEN b
    ELSE IF a = <<>> \/ a[Len(a)] = "/" THEN a \o b
    ELSE a \o <<"/">> \o b

\* os.path.basename(p) (posixpath)
Basename(p) == SubSeq(p, RFindSep(p) + 1, Len(p))

\* os.path.dirname(p) (posixpath)
Dirname(p) ==
    LET head == SubSeq(p, 1, RFindSep(p))
    IN  IF head # <<>> /\ Range(head) # {"/"} THEN RStripSep(head) ELSE head

\* path f lies inside directory d
IsUnder(f, d) == Len(f) > Len(d) + 1 /\ SubSeq(f, 1, Len(d) + 1) = d \o <<"/">>

\* ------------------------------------------------------------- inputs
DefaultPort == 5432

RootDir == <<"/">>
TempRoot == <<"/", "t">>
\* the directory tempfile.TemporaryDirectory() makes under the temp root
TempDirName == Join(TempRoot, <<"x">>)

Databases == {<<"d", "b">>, <<"a", "/", "b">>, <<"/", "x">>}
PrefixChars == {"a", "/", " "}
Prefixes == SeqsUpTo(PrefixChars, MaxPrefixLen)
BucketArgs == {None, Some("demo")}
AccountBuckets == {"demo", "other"}
Passwords == {"pw1", "pw2"}
EnvNames == {"PGPASSWORD", "B2_KEY_ID", "B2_APPLICATION_KEY"}
B2Names == {"B2_KEY_ID", "B2_APPLICATION_KEY"}
Times == {[Y |-> 2026, M |-> 1, D |-> 5, h |-> 0, m |-> 7, s |-> 9],
          [Y |-> 1999, M |-> 12, D |-> 31, h |-> 23, m |-> 59, s |-> 58]}
ExitCodes == {0 - 9, 0, 1}
WriteKinds == {[fd |-> 1, data |-> "out"], [fd |-> 2, data |-> "err"]}
ChildWrites == SeqsUpTo(WriteKinds, MaxWrites)

Environments ==
    {[n \in D |-> IF n = "PGPASSWORD" THEN "pw1" ELSE "key"] : D \in SUBSET EnvNames}

\* argparse result: defaults for hostname, port and prefix; user and
\* database are required; b2_bucket is None unless given
ParsedArgs ==
    [hostname : {"localhost"}, port : {DefaultPort}, user : {"alice"},
     database : Databases, b2_bucket : BucketArgs, b2_prefix : Prefixes]

VARIABLES
    pc,                 \* position in main / the function it is inside
    args,               \* parser.parse_args()
    environ0,           \* os.environ as it was when the run started
    environ,            \* os.environ
    dirs, files,        \* the file system: directories and files that exist
    tf,                 \* the name bound by `with TemporaryDirectory() as tf`
    password,           \* get_password()'s return value
    prompts,            \* number of getpass.getpass prompts shown
    envWrites,          \* number of writes to os.environ['PGPASSWORD']
    utcnow,             \* datetime.utcnow() read by create_backup
    filepath,           \* create_backup's filepath
    cmd,                \* create_backup's cmd
    dump,               \* the pg_dump subprocess: env it saw, exit code, writes
    completed_process,  \* subprocess.run's result
    parent_stdout,      \* what reached this process's own standard output
    main_filepath,      \* main's filepath (create_backup's return value)
    called,             \* functions that have been entered
    calls,              \* object-store calls made, in order
    bucket_names,       \* upload_to_b2_bucket's bucket_names
    prefix,             \* upload_to_b2_bucket's prefix
    opened,             \* files opened for reading
    exc, raisedIn, detail,  \* the exception in flight, where it was raised, its message
    exit_status         \* the process's exit status

vars == <<pc, args, environ0, environ, dirs, files, tf, password, prompts,
          envWrites, utcnow, filepath, cmd, dump, completed_process,
          parent_stdout, main_filepath, called, calls, bucket_names, prefix,
          opened, exc, raisedIn, detail, exit_status>>

fsVars == <<dirs, files, tf>>
pwVars == <<password, prompts, envWrites>>
cbVars == <<utcnow, filepath, cmd, dump, completed_process, parent_stdout, main_filepath>>
upVars == <<calls, bucket_names, prefix, opened>>
excVars == <<exc, raisedIn, detail>>

Init ==
    /\ pc = "main"
    /\ args \in ParsedArgs
    /\ environ0 \in Environments
    /\ environ = environ0
    /\ dirs = {RootDir, TempRoot}
    /\ files = {}
    /\ tf = None
    /\ password = None
    /\ prompts = 0
    /\ envWrites = 0
    /\ utcnow = None
    /\ filepath = None
    /\ cmd = None
    /\ dump = None
    /\ completed_process = None
    /\ parent_stdout = <<>>
    /\ main_filepath = None
    /\ called = {"main"}
    /\ calls = <<>>
    /\ bucket_names = None
    /\ prefix = None
    /\ opened = {}
    /\ exc = "none"
    /\ raisedIn = "none"
    /\ detail = <<>>
    /\ exit_status = None

\* an uncaught exception: control leaves through the with block's exit
Raise(type, fn, msg) ==
    /\ exc' = type
    /\ raisedIn' = fn
    /\ detail' = msg
    /\ pc' = "exit_with"

\* ------------------------------------------------------------- main
EnterTemporaryDirectory ==
    /\ pc = "main"
    /\ tf' = Some(TempDirName)
    /\ dirs' = dirs \cup {TempDirName}
    /\ pc' = "get_password"
    /\ UNCHANGED <<args, environ0, environ, files, pwVars, cbVars, called, upVars,
                   excVars, exit_status>>

\* ----------------------------------------------------- get_password
\* get_password that prompts even when PGPASSWORD is in the environment
GetPassword_AlwaysPrompt ==
    /\ pc = "get_password"
    /\ called' = called \cup {"get_password"}
    /\ prompts' = prompts + 1
    /\ \/ \E entered \in Passwords :
            /\ password' = Some(entered)
            /\ pc' = "create_backup"
            /\ UNCHANGED excVars
       \/ /\ Raise("EOFError", "get_password", <<>>)
          /\ UNCHANGED password
    /\ UNCHANGED <<args, environ0, environ, fsVars, envWrites, cbVars, upVars, exit_status>>

GetPassword ==
    /\ pc = "get_password"
    /\ called' = called \cup {"get_password"}
    /\ IF "PGPASSWORD" \in DOMAIN environ
       THEN /\ password' = Some(environ["PGPASSWORD"])
            /\ pc' = "create_backup"
            /\ UNCHANGED <<prompts, excVars>>
       ELSE /\ prompts' = prompts + 1
            /\ \/ \E entered \in Passwords :
                    /\ password' = Some(entered)
                    /\ pc' = "create_backup"
                    /\ UNCHANGED excVars
               \/ /\ Raise("EOFError", "get_password", <<>>)
                  /\ UNCHANGED password
    /\ UNCHANGED <<args, environ0, environ, fsVars, envWrites, cbVars, upVars, exit_status>>

\* ---------------------------------------------------- create_backup
\* create_backup that never exports the password
CreateBackupSetEnv_NoExport ==
    /\ pc = "create_backup"
    /\ called' = called \cup {"create_backup"}
    /\ pc' = "create_backup_filename"
    /\ UNCHANGED <<args, environ0, environ, fsVars, pwVars, cbVars, upVars,
                   excVars, exit_status>>

CreateBackupSetEnv ==
    /\ pc = "create_backup"
    /\ called' = called \cup {"create_backup"}
    /\ IF "PGPASSWORD" \notin DOMAIN environ
       THEN /\ environ' = [n \in DOMAIN environ \cup {"PGPASSWORD"} |->
                              IF n = "PGPASSWORD" THEN password[1] ELSE environ[n]]
            /\ envWrites' = envWrites + 1
       ELSE UNCHANGED <<environ, envWrites>>
    /\ pc' = "create_backup_filename"
    /\ UNCHANGED <<args, environ0, fsVars, password, prompts, cbVars, upVars,
                   excVars, exit_status>>

BackupFilename(database, now) ==
    database \o <<"_">> \o Strftime(now) \o <<".", "b", "a", "c", "k", "u", "p">>

DumpCommand(host, port, user, path, database) ==
    [prog |-> "pg_dump", h |-> host, p |-> IntToStr(port), U |-> user,
     f |-> path, flags |-> <<"-Fc", "-Z9">>, d |-> database]

CreateBackupFilename ==
    /\ pc = "create_backup_filename"
    /\ \E now \in Times :
          LET path == Join(tf[1], BackupFilename(args.database, now))
          IN  /\ utcnow' = Some(now)
              /\ filepath' = Some(path)
              /\ cmd' = Some(DumpCommand(args.hostname, args.port, args.user,
                                         path, args.database))
    /\ pc' = "create_backup_run"
    /\ UNCHANGED <<args, environ0, environ, fsVars, pwVars, dump, completed_process,
                   parent_stdout, main_filepath, called, upVars, excVars, exit_status>>

\* where subprocess.run connects the child's descriptors 1 and 2
ChildSinks(stdoutArg, stderrArg) ==
    LET out == IF stdoutArg = "PIPE" THEN "pipe_stdout" ELSE "parent_fd1"
    IN  [fd \in {1, 2} |->
            IF fd = 1 THEN out
            ELSE CASE stderrArg = "subprocess.STDOUT" -> out
                   [] stderrArg = "PIPE" -> "pipe_stderr"
                   [] stderrArg = "sys.stdout" -> "parent_fd1"
                   [] OTHER -> "parent_fd2"]

\* the arguments create_backup passes to subprocess.run
RunSinks == ChildSinks("PIPE", "sys.stdout")

DataOf(ws) == [i \in 1..Len(ws) |-> ws[i].data]

RunDump ==
    /\ pc = "create_backup_run"
    /\ \E rc \in ExitCodes, ws \in ChildWrites, wrote \in BOOLEAN :
          \* pg_dump makes its output file when it succeeds, and can only
          \* make it in a directory that exists
          /\ rc = 0 => wrote
          /\ wrote => Dirname(cmd[1].f) \in dirs
          /\ dump' = Some([env |-> environ, returncode |-> rc, writes |-> ws])
          /\ files' = IF wrote THEN files \cup {cmd[1].f} ELSE files
          /\ completed_process' =
                Some([returncode |-> rc,
                      stdout |-> DataOf(SelectSeq(ws, LAMBDA w : RunSinks[w.fd] = "pipe_stdout"))])
          /\ parent_stdout' =
                parent_stdout \o DataOf(SelectSeq(ws, LAMBDA w : RunSinks[w.fd] = "parent_fd1"))
    /\ pc' = "create_backup_check"
    /\ UNCHANGED <<args, environ0, environ, dirs, tf, pwVars, utcnow, filepath, cmd,
                   main_filepath, called, upVars, excVars, exit_status>>

\* the assertion written as returncode <= 0: a negative code passes
CreateBackupCheck_PositiveOnly ==
    /\ pc = "create_backup_check"
    /\ IF completed_process[1].returncode <= 0
       THEN /\ main_filepath' = filepath
            /\ pc' = "main_check_bucket"
            /\ UNCHANGED excVars
       ELSE /\ Raise("AssertionError", "create_backup", completed_process[1].stdout)
            /\ UNCHANGED main_filepath
    /\ UNCHANGED <<args, environ0, environ, fsVars, pwVars, utcnow, filepath, cmd, dump,
                   completed_process, parent_stdout, called, upVars, exit_status>>

\* the assertion left out: create_backup returns whatever the exit code
CreateBackupCheck_NoAssert ==
    /\ pc = "create_backup_check"
    /\ main_filepath' = filepath
    /\ pc' = "main_check_bucket"
    /\ UNCHANGED <<args, environ0, environ, fsVars, pwVars, utcnow, filepath, cmd, dump,
                   completed_process, parent_stdout, called, upVars, excVars, exit_status>>

CreateBackupCheck ==
    /\ pc = "create_backup_check"
    /\ IF completed_process[1].returncode = 0
       THEN /\ main_filepath' = filepath
            /\ pc' = "main_check_bucket"
            /\ UNCHANGED excVars
       ELSE /\ Raise("AssertionError", "create_backup", completed_process[1].stdout)
            /\ UNCHANGED main_filepath
    /\ UNCHANGED <<args, environ0, environ, fsVars, pwVars, utcnow, filepath, cmd, dump,
                   completed_process, parent_stdout, called, upVars, exit_status>>

\* ------------------------------------------------------------- main
MainCheckBucket ==
    /\ pc = "main_check_bucket"
    /\ IF args.b2_bucket # None
       THEN pc' = "upload_to_b2_bucket"
       ELSE pc' = "exit_with"
    /\ UNCHANGED <<args, environ0, environ, fsVars, pwVars, cbVars, called, upVars,
                   excVars, exit_status>>

\* ---------------------------------------------- upload_to_b2_bucket
\* only the key id is asserted
UploadCheckCredentials_KeyIdOnly ==
    /\ pc = "upload_to_b2_bucket"
    /\ called' = called \cup {"upload_to_b2_bucket"}
    /\ IF "B2_KEY_ID" \notin DOMAIN environ
       THEN Raise("AssertionError", "upload_to_b2_bucket", <<>>)
       ELSE /\ pc' = "upload_client"
            /\ UNCHANGED excVars
    /\ UNCHANGED <<args, environ0, environ, fsVars, pwVars, cbVars, upVars, exit_status>>

UploadCheckCredentials ==
    /\ pc = "upload_to_b2_bucket"
    /\ called' = called \cup {"upload_to_b2_bucket"}
    /\ IF "B2_KEY_ID" \notin DOMAIN environ
       THEN Raise("AssertionError", "upload_to_b2_bucket", <<>>)
       ELSE IF "B2_APPLICATION_KEY" \notin DOMAIN environ
       THEN Raise("AssertionError", "upload_to_b2_bucket", <<>>)
       ELSE /\ pc' = "upload_client"
            /\ UNCHANGED excVars
    /\ UNCHANGED <<args, environ0, environ, fsVars, pwVars, cbVars, upVars, exit_status>>

UploadConstructClient ==
    /\ pc = "upload_client"
    /\ calls' = Append(calls, [op |-> "B2"])
    /\ \/ /\ pc' = "upload_list"
          /\ UNCHANGED excVars
       \/ Raise("B2Exception", "upload_to_b2_bucket", <<>>)
    /\ UNCHANGED <<args, environ0, environ, fsVars, pwVars, cbVars, called,
                   bucket_names, prefix, opened, exit_status>>

\* the bucket names are listed but membership is not asserted
UploadListBuckets_NoAssert ==
    /\ pc = "upload_list"
    /\ calls' = Append(calls, [op |-> "buckets.all"])
    /\ \/ \E names \in SUBSET AccountBuckets :
             /\ bucket_names' = Some(names)
             /\ pc' = "upload_get"
             /\ UNCHANGED excVars
       \/ /\ Raise("B2Exception", "upload_to_b2_bucket", <<>>)
          /\ UNCHANGED bucket_names
    /\ UNCHANGED <<args, environ0, environ, fsVars, pwVars, cbVars, called,
                   prefix, opened, exit_status>>

UploadListBuckets ==
    /\ pc = "upload_list"
    /\ calls' = Append(calls, [op |-> "buckets.all"])
    /\ \/ \E names \in SUBSET AccountBuckets :
             /\ bucket_names' = Some(names)
             /\ IF args.b2_bucket[1] \in names
                THEN /\ pc' = "upload_get"
                     /\ UNCHANGED excVars
                ELSE Raise("AssertionError", "upload_to_b2_bucket",
                           <<"Bucket", args.b2_bucket[1], "not in", names>>)
       \/ /\ Raise("B2Exception", "upload_to_b2_bucket", <<>>)
          /\ UNCHANGED bucket_names
    /\ UNCHANGED <<args, environ0, environ, fsVars, pwVars, cbVars, called,
                   prefix, opened, exit_status>>

UploadGetBucket ==
    /\ pc = "upload_get"
    /\ calls' = Append(calls, [op |-> "buckets.get", bucket_name |-> args.b2_bucket[1]])
    /\ \/ /\ pc' = "upload_prefix"
          /\ UNCHANGED excVars
       \/ Raise("B2Exception", "upload_to_b2_bucket", <<>>)
    /\ UNCHANGED <<args, environ0, environ, fsVars, pwVars, cbVars, called,
                   bucket_names, prefix, opened, exit_status>>

\* prefix[:-1]
AllButLast(s) == SubSeq(s, 1, Len(s) - 1)

NormalizePrefix(p) ==
    IF Len(Strip(p)) > 0 /\ AllButLast(p) # <<"/">>
    THEN Strip(p) \o <<"/">>
    ELSE p

UploadNormalizePrefix ==
    /\ pc = "upload_prefix"
    /\ prefix' = Some(NormalizePrefix(args.b2_prefix))
    /\ pc' = "upload_file"
    /\ UNCHANGED <<args, environ0, environ, fsVars, pwVars, cbVars, called, calls,
                   bucket_names, opened, excVars, exit_status>>

\* the normalized prefix is put in front of the object name
UploadFile_Prefixed ==
    /\ pc = "upload_file"
    /\ IF main_filepath[1] \notin files
       THEN /\ Raise("FileNotFoundError", "upload_to_b2_bucket", <<>>)
            /\ UNCHANGED <<opened, calls>>
       ELSE /\ opened' = opened \cup {main_filepath[1]}
            /\ calls' = Append(calls, [op |-> "files.upload",
                                       contents |-> main_filepath[1],
                                       file_name |-> prefix[1] \o Basename(main_filepath[1])])
            /\ \/ /\ pc' = "exit_with"
                  /\ UNCHANGED excVars
               \/ Raise("B2Exception", "upload_to_b2_bucket", <<>>)
    /\ UNCHANGED <<args, environ0, environ, fsVars, pwVars, cbVars, called,
                   bucket_names, prefix, exit_status>>

UploadFile ==
    /\ pc = "upload_file"
    /\ IF main_filepath[1] \notin files
       THEN /\ Raise("FileNotFoundError", "upload_to_b2_bucket", <<>>)
            /\ UNCHANGED <<opened, calls>>
       ELSE /\ opened' = opened \cup {main_filepath[1]}
            /\ calls' = Append(calls, [op |-> "files.upload",
                                       contents |-> main_filepath[1],
                                       file_name |-> Basename(main_filepath[1])])
            /\ \/ /\ pc' = "exit_with"
                  /\ UNCHANGED excVars
               \/ Raise("B2Exception", "upload_to_b2_bucket", <<>>)
    /\ UNCHANGED <<args, environ0, environ, fsVars, pwVars, cbVars, called,
                   bucket_names, prefix, exit_status>>

\* ------------------------------------------------------------- main
\* leaving the with block removes the directory tree, on a return and on
\* an exception alike; the interpreter then exits, 1 for an uncaught
\* exception
\* the directory is removed only when the block ends without an exception
ExitTemporaryDirectory_OnReturnOnly ==
    /\ pc = "exit_with"
    /\ dirs' = IF exc = "none" THEN {d \in dirs : d # tf[1] /\ ~IsUnder(d, tf[1])} ELSE dirs
    /\ files' = IF exc = "none" THEN {f \in files : ~IsUnder(f, tf[1])} ELSE files
    /\ exit_status' = Some(IF exc = "none" THEN 0 ELSE 1)
    /\ pc' = "done"
    /\ UNCHANGED <<args, environ0, environ, tf, pwVars, cbVars, called, upVars, excVars>>

ExitTemporaryDirectory ==
    /\ pc = "exit_with"
    /\ dirs' = {d \in dirs : d # tf[1] /\ ~IsUnder(d, tf[1])}
    /\ files' = {f \in files : ~IsUnder(f, tf[1])}
    /\ exit_status' = Some(IF exc = "none" THEN 0 ELSE 1)
    /\ pc' = "done"
    /\ UNCHANGED <<args, environ0, environ, tf, pwVars, cbVars, called, upVars, excVars>>

Next ==
    \/ EnterTemporaryDirectory
    \/ GetPassword
    \/ CreateBackupSetEnv
    \/ CreateBackupFilename
    \/ RunDump
    \/ CreateBackupCheck
    \/ MainCheckBucket
    \/ UploadCheckCredentials
    \/ UploadConstructClient
    \/ UploadListBuckets
    \/ UploadGetBucket
    \/ UploadNormalizePrefix
    \/ UploadFile
    \/ ExitTemporaryDirectory

Spec == Init /\ [][Next]_vars

\* ------------------------------------------------------------ properties
UploadCalls == SelectSeq(calls, LAMBDA c : c.op = "files.upload")

\* name has no separator and path is "<something>/name"
IsBaseNameOf(name, path) ==
    /\ "/" \notin Range(name)
    /\ Len(path) > Len(name)
    /\ SubSeq(path, Len(path) - Len(name), Len(path)) = <<"/">> \o name

\* C1: once the run has ended, whatever the outcome of the later steps, the
\* temporary directory does not exist and nothing inside it exists.
C1_TempDirRemoved ==
    pc = "done" =>
        /\ tf[1] \notin dirs
        /\ \A d \in dirs : ~IsUnder(d, tf[1])
        /\ \A f \in files : ~IsUnder(f, tf[1])

\* a run that failed after the artifact was written inside the directory
C1_Witness ==
    /\ pc = "done"
    /\ exc # "none"
    /\ main_filepath # None
    /\ IsUnder(main_filepath[1], tf[1])

\* C2: once create_backup has checked the exit code, it has failed if and
\* only if the code is non-zero; a non-zero code leaves main without a
\* filepath, and code zero returns directory joined with
\* <database>_<timestamp>.backup.
C2_FatalIffNonZero ==
    (dump # None /\ pc # "create_backup_check") =>
        /\ raisedIn = "create_backup" <=> dump[1].returncode # 0
        /\ dump[1].returncode # 0 =>
              /\ exc = "AssertionError"
              /\ main_filepath = None
              /\ pc \in {"exit_with", "done"}
        /\ dump[1].returncode = 0 =>
              main_filepath = Some(Join(tf[1], BackupFilename(args.database, utcnow[1])))

\* the dump subprocess ended with a negative code and the run failed
C2_Witness ==
    /\ pc = "done"
    /\ dump # None
    /\ dump[1].returncode < 0
    /\ raisedIn = "create_backup"

\* C3: the upload client is entered, and object-store calls are made, only
\* after the dump exited zero and only with a bucket argument; a run with no
\* bucket argument and a successful dump exits zero without such a call.
C3_UploadOnlyAfterDump ==
    /\ (calls # <<>> \/ "upload_to_b2_bucket" \in called) =>
          /\ dump # None
          /\ dump[1].returncode = 0
          /\ main_filepath # None
          /\ args.b2_bucket # None
    /\ (pc = "done" /\ args.b2_bucket = None /\ dump # None /\ dump[1].returncode = 0) =>
          /\ exit_status = Some(0)
          /\ calls = <<>>

\* a finished run that made object-store calls
C3_Witness ==
    /\ pc = "done"
    /\ Len(calls) >= 2
    /\ dump[1].returncode = 0

\* C4: when PGPASSWORD is set at the start, no prompt is shown, get_password
\* returns the existing value, and PGPASSWORD is never written or changed.
C4_PresetPasswordKept ==
    "PGPASSWORD" \in DOMAIN environ0 =>
        /\ prompts = 0
        /\ envWrites = 0
        /\ "PGPASSWORD" \in DOMAIN environ
        /\ environ["PGPASSWORD"] = environ0["PGPASSWORD"]
        /\ "get_password" \in called => password = Some(environ0["PGPASSWORD"])

\* a finished run that had PGPASSWORD preset and ran the dump
C4_Witness ==
    /\ "PGPASSWORD" \in DOMAIN environ0
    /\ pc = "done"
    /\ dump # None

\* C5: when PGPASSWORD is unset at the start, the run prompts exactly once,
\* writes PGPASSWORD exactly once, and the dump subprocess is started with
\* PGPASSWORD equal to the entered value.
C5_PromptOnceThenExport ==
    "PGPASSWORD" \notin DOMAIN environ0 =>
        /\ prompts <= 1
        /\ envWrites <= 1
        /\ "get_password" \in called => prompts = 1
        /\ dump # None =>
              /\ prompts = 1
              /\ envWrites = 1
              /\ password # None
              /\ "PGPASSWORD" \in DOMAIN dump[1].env
              /\ dump[1].env["PGPASSWORD"] = password[1]

\* the dump was started in a run that began without PGPASSWORD
C5_Witness ==
    /\ "PGPASSWORD" \notin DOMAIN environ0
    /\ dump # None
    /\ password = Some("pw2")

\* C6: upload_to_b2_bucket entered with B2_KEY_ID or B2_APPLICATION_KEY
\* absent fails with an assertion before any object-store call.
C6_MissingCredentialsFatal ==
    ("upload_to_b2_bucket" \in called /\ ~(B2Names \subseteq DOMAIN environ)) =>
        /\ exc = "AssertionError"
        /\ raisedIn = "upload_to_b2_bucket"
        /\ pc \in {"exit_with", "done"}
        /\ calls = <<>>
        /\ opened = {}

\* the upload was entered with only the application key missing
C6_Witness ==
    /\ "upload_to_b2_bucket" \in called
    /\ "B2_KEY_ID" \in DOMAIN environ
    /\ "B2_APPLICATION_KEY" \notin DOMAIN environ
    /\ pc = "done"

\* C7: when the listing does not contain the requested bucket the upload
\* fails with an assertion and no file is opened or uploaded; an upload call
\* is made only when the requested name was listed.
C7_UnknownBucketFatal ==
    /\ (bucket_names # None /\ args.b2_bucket[1] \notin bucket_names[1]) =>
          /\ exc = "AssertionError"
          /\ raisedIn = "upload_to_b2_bucket"
          /\ pc \in {"exit_with", "done"}
          /\ UploadCalls = <<>>
          /\ opened = {}
    /\ UploadCalls # <<>> =>
          /\ bucket_names # None
          /\ args.b2_bucket[1] \in bucket_names[1]

\* the listing came back without the requested bucket
C7_Witness ==
    /\ bucket_names # None
    /\ args.b2_bucket[1] \notin bucket_names[1]
    /\ Len(calls) = 2
    /\ pc = "done"

\* C8: for every prefix, at most one upload call is made, its object name
\* is the base filename of the artifact path, and a run whose upload
\* succeeded made exactly one.
C8_ObjectNameIsBasename ==
    /\ Len(UploadCalls) <= 1
    /\ \A i \in 1..Len(UploadCalls) :
          /\ IsBaseNameOf(UploadCalls[i].file_name, main_filepath[1])
          /\ UploadCalls[i].contents = main_filepath[1]
    /\ (pc = "done" /\ exc = "none" /\ "upload_to_b2_bucket" \in called) =>
          Len(UploadCalls) = 1

\* a successful upload with a prefix that has no trailing separator
C8_Witness ==
    /\ pc = "done"
    /\ exc = "none"
    /\ "upload_to_b2_bucket" \in called
    /\ args.b2_prefix = <<"a">>
    /\ Len(UploadCalls) = 1

\* C9: after normalization a non-empty prefix that does not end in '/' has
\* exactly one '/' appended, and any other prefix is unchanged.
C9_PrefixNormalized ==
    prefix # None =>
        LET p == args.b2_prefix
        IN  prefix[1] = IF p # <<>> /\ p[Len(p)] # "/" THEN p \o <<"/">> ELSE p

\* C10: when the dump exits non-zero, the failure detail contains everything
\* the subprocess wrote, to standard output and to standard error.
C10_DetailIsCombinedOutput ==
    raisedIn = "create_backup" =>
        \A i \in 1..Len(dump[1].writes) : dump[1].writes[i].data \in Range(detail)

====
